---- MODULE Spec2Model ----
(***************************************************************************)
(* Session segment tracker of the Fusion_track add-in (Fusion_track.py).   *)
(*                                                                         *)
(* The tracker is a single-slot state machine held in four module globals  *)
(* (_active_doc_key, _active_names, _curr_status, _seg_start_dt).  It is   *)
(* driven by the host's callbacks: run, DocumentActivated, DocumentClosed, *)
(* the palette's "tick" heartbeat and stop.  Each closed segment is handed *)
(* to _write_segment_row, which appends a CSV row unless the segment is    *)
(* shorter than MIN_SESSION_SECONDS.                                       *)
(*                                                                         *)
(* Time is counted in ticks of 1/TicksPerSec second, so that the           *)
(* truncation int((end - start).total_seconds()) is a real conversion.     *)
(***************************************************************************)
EXTENDS Integers, Sequences, FiniteSets, TLC

\* ----------------------------------------------------------------- bounds
\* Number of _write_segment_row calls explored in one behaviour.
MaxSegs == 2
MaxSegsLong == 3

\* ------------------------------------------------------ program constants
IDLE_THRESHOLD_SEC == 120
MIN_SESSION_SECONDS == 1

\* Sub-second resolution of datetime.now() kept by the model (ticks/second).
TicksPerSec == 2

\* Wall-clock instants (in ticks) at which the host delivers events.
Times == {0, 1, 3, 300}

\* Values returned by _get_idle_seconds_windows (whole seconds).
IdleValues == {119, 120, 130}

\* Outcome of the filesystem calls inside _write_segment_row's try block,
\* all on SESSIONS_CSV in the add-in folder:
\*   "ok"      : the row is appended
\*   "fail"    : a call raises, and no other folder is writable either
\*   "failalt" : a call raises while another folder (such as the temporary
\*               directory _write_html uses) is writable
FsOutcomes == {"ok", "fail", "failalt"}

\* ------------------------------------------------------------- documents
\* A document object as the host hands it to the callbacks.
\*   kind "none"    : no document (None)
\*   kind "ok"      : attributes readable
\*   kind "raises"  : reading .name raises (caught by the bare except)
\*   kind "raisesdf": .name readable, reading .dataFile raises
\*   kind "raisesurn": .name and the project readable, reading dataFile.id
\*                    raises
\* hasDf: doc.dataFile is not None; proj: dataFile.project.name ("" if none);
\* urn: dataFile.id or dataFile.versionId ("" if neither).
\* id distinguishes host objects and is never read by the add-in.
DocA == [id |-> 1, kind |-> "ok", name |-> "a", hasDf |-> TRUE,
          proj |-> "P", urn |-> "urn:a"]
DocU1 == [id |-> 2, kind |-> "ok", name |-> "Untitled", hasDf |-> FALSE,
          proj |-> "", urn |-> ""]
DocU2 == [id |-> 3, kind |-> "ok", name |-> "Untitled", hasDf |-> FALSE,
          proj |-> "", urn |-> ""]
NoDoc == [id |-> 0, kind |-> "none", name |-> "", hasDf |-> FALSE,
          proj |-> "", urn |-> ""]
BadDoc == [id |-> 4, kind |-> "raisesdf", name |-> "b", hasDf |-> FALSE,
          proj |-> "", urn |-> ""]
\* A document whose every attribute read raises.
NoName == [id |-> 5, kind |-> "raises", name |-> "", hasDf |-> FALSE,
           proj |-> "", urn |-> ""]
\* A document whose name and project are readable and whose id read raises.
BadUrn == [id |-> 6, kind |-> "raisesurn", name |-> "c", hasDf |-> TRUE,
           proj |-> "Q", urn |-> ""]
Docs == {DocA, DocU1, DocU2, NoDoc, BadDoc, NoName, BadUrn}
\* Documents handed to run and DocumentActivated, and to DocumentClosed.
ActivatedDocs == {DocA, DocU1, NoDoc, BadDoc}
ClosedDocs == {DocA, DocU2, NoDoc}

\* Documents of the specification that explores unreadable documents.
UnreadableDocs == {DocA, NoDoc, NoName, BadDoc, BadUrn}
UnreadableClosedDocs == {DocA, NoDoc}
FewIdleValues == {119, 130}
LongDocs == {DocA, DocU1}
LongClosedDocs == {DocA}
FsOk == {"ok"}

\* Python None and a present value.
None == <<>>
Some(x) == <<x>>
Val(o) == o[1]

VARIABLES
    clock,            \* datetime.now(), in ticks
    handlers,         \* _handlers is not empty
    subscribed,       \* handlers were added to the host's events (run)
    active_doc_key,   \* _active_doc_key : None or Some(key)
    active_names,     \* _active_names   : <<project, document>>
    curr_status,      \* _curr_status    : "active" | "idle"
    seg_start_dt,     \* _seg_start_dt   : None or Some(ticks)
    rows,             \* data rows appended to sessions.csv
    ui,               \* diagnostic stream (_append_ui): the kind of each
                      \* message, without its formatted text
    emitted,          \* every call of _write_segment_row: its arguments
    periods,          \* closed tracking periods (history)
    cur,              \* the open tracking period and the document object
                      \* that opened it (history)
    last              \* the last callback delivered and the state it found

vars == <<clock, handlers, subscribed, active_doc_key, active_names,
          curr_status, seg_start_dt, rows, ui, emitted, periods, cur, last>>

\* --------------------------------------------------------- pure helpers
\* int(x) of Python: truncation towards zero of ticks/TicksPerSec.
IntSeconds(ticks) ==
    IF ticks >= 0 THEN ticks \div TicksPerSec
    ELSE -((-ticks) \div TicksPerSec)

\* Variant: the smaller of the two is taken.
Max_Min(a, b) == IF a <= b THEN a ELSE b

Max(a, b) == IF a >= b THEN a ELSE b

\* _hms: <<h, m, s>> of max(0, seconds).
Hms(seconds) ==
    LET s == Max(0, seconds)
    IN <<s \div 3600, (s % 3600) \div 60, s % 60>>

\* strftime(TIME_FMT): the timestamp cut to its minute.
StrfTime(ticks) == ticks \div (60 * TicksPerSec)

\* Variant: the placeholder key is empty.
DocKeyAndNames_EmptyKey(doc) ==
    IF doc.kind = "none" \/ doc.kind = "raises"
    THEN <<"", <<"Unsaved", "Unknown">>>>
    ELSE
      LET name == IF doc.name = "" THEN "Unknown" ELSE doc.name
      IN IF doc.kind = "raisesdf"
         THEN <<"", <<"Unsaved", name>>>>
         ELSE
           LET proj == IF doc.hasDf /\ doc.proj # "" THEN doc.proj
                       ELSE "Unsaved"
               urn  == IF doc.hasDf THEN doc.urn ELSE ""
               key  == IF urn # "" THEN urn
                       ELSE proj \o "|" \o name
           IN IF doc.kind = "raisesurn"
              THEN <<"", <<proj, name>>>>
              ELSE <<key, <<proj, name>>>>

\* _doc_key_and_names: <<key, <<proj, name>>>>.
DocKeyAndNames(doc) ==
    IF doc.kind = "none" \/ doc.kind = "raises"
    THEN <<"None", <<"Unsaved", "Unknown">>>>
    ELSE
      LET name == IF doc.name = "" THEN "Unknown" ELSE doc.name
      IN IF doc.kind = "raisesdf"
         THEN <<"None", <<"Unsaved", name>>>>
         ELSE
           LET proj == IF doc.hasDf /\ doc.proj # "" THEN doc.proj
                       ELSE "Unsaved"
               urn  == IF doc.hasDf THEN doc.urn ELSE ""
               key  == IF urn # "" THEN urn
                       ELSE proj \o "|" \o name
           IN IF doc.kind = "raisesurn"
              THEN <<"None", <<proj, name>>>>
              ELSE <<key, <<proj, name>>>>

\* Truth value of "_active_doc_key and _seg_start_dt".
Tracking(s) ==
    /\ s.key # None
    /\ Val(s.key) # ""
    /\ s.start # None

\* The tracker as one record, threaded through the calls of a handler.
State ==
    [key |-> active_doc_key, names |-> active_names, status |-> curr_status,
     start |-> seg_start_dt, rows |-> rows, ui |-> ui, emitted |-> emitted]

\* Variant: the minimum-duration test is missing.
WriteSegmentRow_NoFilter(s, names, status, start_dt, end_dt, fs) ==
    LET dur == IntSeconds(end_dt - start_dt)
        seg == [names |-> names, status |-> status,
                start |-> start_dt, end |-> end_dt]
        s1  == [s EXCEPT !.emitted = Append(@, seg)]
    IN IF fs = "ok"
       THEN [s1 EXCEPT
               !.rows = Append(@, [project_name |-> names[1],
                                   document_name |-> names[2],
                                   status |-> status,
                                   start_time |-> StrfTime(start_dt),
                                   end_time |-> StrfTime(end_dt),
                                   duration_seconds |-> dur,
                                   duration_hms |-> Hms(dur)]),
               !.ui = Append(@, <<"saved", status>>)]
       ELSE [s1 EXCEPT !.ui = Append(@, <<"error", status>>)]

\* _write_segment_row(names, status, start_dt, end_dt)
WriteSegmentRow(s, names, status, start_dt, end_dt, fs) ==
    LET dur == IntSeconds(end_dt - start_dt)
        seg == [names |-> names, status |-> status,
                start |-> start_dt, end |-> end_dt]
        s1  == [s EXCEPT !.emitted = Append(@, seg)]
    IN IF dur < MIN_SESSION_SECONDS
       THEN [s1 EXCEPT !.ui = Append(@, <<"dropped", status>>)]
       ELSE IF fs = "ok"
            THEN [s1 EXCEPT
                    !.rows = Append(@, [project_name |-> names[1],
                                        document_name |-> names[2],
                                        status |-> status,
                                        start_time |-> StrfTime(start_dt),
                                        end_time |-> StrfTime(end_dt),
                                        duration_seconds |-> dur,
                                        duration_hms |-> Hms(dur)]),
                    !.ui = Append(@, <<"saved", status>>)]
            ELSE [s1 EXCEPT !.ui = Append(@, <<"error", status>>)]

\* Variant: the status of the previous segment is kept.
SwitchTo_KeepStatus(s, doc, reason, now, fs) ==
    LET s1 == IF s.key # None /\ Val(s.key) # "" /\ s.start # None
              THEN WriteSegmentRow(s, s.names, s.status, Val(s.start), now, fs)
              ELSE s
        kn == DocKeyAndNames(doc)
    IN [s1 EXCEPT !.key = Some(kn[1]), !.names = kn[2],
                  !.start = Some(now),
                  !.ui = Append(@, <<"start", kn[2]>>)]

\* Variant: a failed write raises out of _switch_to before the new segment
\* begins.
SwitchTo_WriteRaises(s, doc, reason, now, fs) ==
    LET s1 == IF Tracking(s)
              THEN WriteSegmentRow(s, s.names, s.status, Val(s.start), now, fs)
              ELSE s
        kn == DocKeyAndNames(doc)
    IN IF /\ Len(s1.ui) > Len(s.ui)
          /\ s1.ui[Len(s1.ui)][1] = "error"
       THEN s1
       ELSE [s1 EXCEPT !.key = Some(kn[1]), !.names = kn[2],
                       !.status = "active", !.start = Some(now),
                       !.ui = Append(@, <<"start", kn[2]>>)]

\* Variant: an open segment keeps its start across the switch.
SwitchTo_KeepStart(s, doc, reason, now, fs) ==
    LET s1 == IF Tracking(s)
              THEN WriteSegmentRow(s, s.names, s.status, Val(s.start), now, fs)
              ELSE s
        kn == DocKeyAndNames(doc)
    IN [s1 EXCEPT !.key = Some(kn[1]), !.names = kn[2],
                  !.status = "active",
                  !.start = IF Tracking(s) THEN s.start ELSE Some(now),
                  !.ui = Append(@, <<"start", kn[2]>>)]

\* _switch_to(doc, reason)
SwitchTo(s, doc, reason, now, fs) ==
    LET s1 == IF Tracking(s)
              THEN WriteSegmentRow(s, s.names, s.status, Val(s.start), now, fs)
              ELSE s
        kn == DocKeyAndNames(doc)
    IN [s1 EXCEPT !.key = Some(kn[1]), !.names = kn[2],
                  !.status = "active", !.start = Some(now),
                  !.ui = Append(@, <<"start", kn[2]>>)]

\* Variant: the early return on "no open segment" is missing.
StopCurrent_NoGuard(s, reason, now, fs) ==
    LET s1 == IF Tracking(s)
              THEN WriteSegmentRow(s, s.names, s.status, Val(s.start), now, fs)
              ELSE s
    IN [s1 EXCEPT !.ui = Append(@, <<"stop">>),
                  !.key = None, !.start = None]

\* Variant: the segment is closed but the state is not cleared.
StopCurrent_KeepState(s, reason, now, fs) ==
    IF ~Tracking(s) THEN s
    ELSE LET s1 == WriteSegmentRow(s, s.names, s.status, Val(s.start), now, fs)
         IN [s1 EXCEPT !.ui = Append(@, <<"stop">>)]

\* Variant: only the key is cleared, the start of the segment stays.
StopCurrent_KeepStart(s, reason, now, fs) ==
    IF ~Tracking(s) THEN s
    ELSE LET s1 == WriteSegmentRow(s, s.names, s.status, Val(s.start), now, fs)
         IN [s1 EXCEPT !.ui = Append(@, <<"stop">>),
                       !.key = None]

\* _stop_current(reason)
StopCurrent(s, reason, now, fs) ==
    IF ~Tracking(s) THEN s
    ELSE LET s1 == WriteSegmentRow(s, s.names, s.status, Val(s.start), now, fs)
         IN [s1 EXCEPT !.ui = Append(@, <<"stop">>),
                       !.key = None, !.start = None]

\* Variant: the early return on "already idle" is missing.
ToIdle_NoEarlyReturn(s, idle_start_dt, fs) ==
    LET s1 == IF Tracking(s)
              THEN WriteSegmentRow(s, s.names, "active", Val(s.start),
                                   idle_start_dt, fs)
              ELSE s
    IN [s1 EXCEPT !.status = "idle", !.start = Some(idle_start_dt),
                  !.ui = Append(@, <<"idle">>)]

\* Variant: the active segment is written under the placeholder names.
ToIdle_PlaceholderNames(s, idle_start_dt, fs) ==
    IF s.status = "idle" THEN s
    ELSE LET s1 == IF Tracking(s)
                   THEN WriteSegmentRow(s, <<"Unsaved", "Unknown">>, "active",
                                        Val(s.start), idle_start_dt, fs)
                   ELSE s
         IN [s1 EXCEPT !.status = "idle", !.start = Some(idle_start_dt),
                       !.ui = Append(@, <<"idle">>)]

\* _to_idle(idle_start_dt)
ToIdle(s, idle_start_dt, fs) ==
    IF s.status = "idle" THEN s
    ELSE LET s1 == IF Tracking(s)
                   THEN WriteSegmentRow(s, s.names, "active", Val(s.start),
                                        idle_start_dt, fs)
                   ELSE s
         IN [s1 EXCEPT !.status = "idle", !.start = Some(idle_start_dt),
                       !.ui = Append(@, <<"idle">>)]

\* Variant: the start of the new active segment is not recorded.
FromIdleToActive_KeepStart(s, resume_dt, fs) ==
    IF s.status = "active" THEN s
    ELSE LET s1 == IF Tracking(s)
                   THEN WriteSegmentRow(s, s.names, "idle", Val(s.start),
                                        resume_dt, fs)
                   ELSE s
         IN [s1 EXCEPT !.status = "active",
                       !.ui = Append(@, <<"resume">>)]

\* Variant: the segment that ends on resume is labelled active.
FromIdleToActive_ActiveLabel(s, resume_dt, fs) ==
    IF s.status = "active" THEN s
    ELSE LET s1 == IF Tracking(s)
                   THEN WriteSegmentRow(s, s.names, "active", Val(s.start),
                                        resume_dt, fs)
                   ELSE s
         IN [s1 EXCEPT !.status = "active", !.start = Some(resume_dt),
                       !.ui = Append(@, <<"resume">>)]

\* _from_idle_to_active(resume_dt)
FromIdleToActive(s, resume_dt, fs) ==
    IF s.status = "active" THEN s
    ELSE LET s1 == IF Tracking(s)
                   THEN WriteSegmentRow(s, s.names, "idle", Val(s.start),
                                        resume_dt, fs)
                   ELSE s
         IN [s1 EXCEPT !.status = "active", !.start = Some(resume_dt),
                       !.ui = Append(@, <<"resume">>)]

\* Variant: the idle start is not clamped to the start of the segment.
OnTick_NoClamp(s, idle_sec, now, fs) ==
    IF ~Tracking(s) THEN s
    ELSE IF idle_sec >= IDLE_THRESHOLD_SEC
         THEN ToIdle(s, now - idle_sec * TicksPerSec, fs)
         ELSE FromIdleToActive(s, now, fs)

\* Variant: the idle start is taken one threshold back from now.
OnTick_ThresholdStart(s, idle_sec, now, fs) ==
    IF ~Tracking(s) THEN s
    ELSE IF idle_sec >= IDLE_THRESHOLD_SEC
         THEN LET idle_start == Max(now - IDLE_THRESHOLD_SEC * TicksPerSec,
                                    Val(s.start))
              IN ToIdle(s, idle_start, fs)
         ELSE FromIdleToActive(s, now, fs)

\* Variant: idle only above the threshold.
OnTick_StrictThreshold(s, idle_sec, now, fs) ==
    IF ~Tracking(s) THEN s
    ELSE IF idle_sec > IDLE_THRESHOLD_SEC
         THEN LET idle_start == Max(now - idle_sec * TicksPerSec, Val(s.start))
              IN ToIdle(s, idle_start, fs)
         ELSE FromIdleToActive(s, now, fs)

\* HtmlIncomingHandler.notify, action "tick"
OnTick(s, idle_sec, now, fs) ==
    IF ~Tracking(s) THEN s
    ELSE IF idle_sec >= IDLE_THRESHOLD_SEC
         THEN LET idle_start == Max(now - idle_sec * TicksPerSec, Val(s.start))
              IN ToIdle(s, idle_start, fs)
         ELSE FromIdleToActive(s, now, fs)

\* Variant: the closed document is not compared with the current one.
OnDocumentClosed_AnyDoc(s, closed_doc, now, fs) ==
    IF s.key # None /\ Val(s.key) # ""
    THEN StopCurrent(s, "close", now, fs)
    ELSE s

\* DocEventHandler.notify, "DocumentClosed"
OnDocumentClosed(s, closed_doc, now, fs) ==
    LET key_closed == DocKeyAndNames(closed_doc)[1]
    IN IF s.key # None /\ Val(s.key) # "" /\ key_closed = Val(s.key)
       THEN StopCurrent(s, "close", now, fs)
       ELSE s

\* ----------------------------------------------------------- transitions
SwitchOps == {"run", "activated"}

\* Installs the tracker state t a handler computed from State, and records
\* the history: the callback delivered, the state it found, the outcome of
\* the file write it attempted ("none" without attempt), and the tracking
\* period it ended or began.  A period runs from the switch that made a
\* document current to the switch, stop or close that ended it.
Commit(t, op, doc, idle, fs) ==
    /\ active_doc_key' = t.key
    /\ active_names' = t.names
    /\ curr_status' = t.status
    /\ seg_start_dt' = t.start
    /\ rows' = t.rows
    /\ ui' = t.ui
    /\ emitted' = t.emitted
    /\ last' = [op |-> op, doc |-> doc.id, idle |-> idle,
                key |-> active_doc_key, names |-> active_names,
                status |-> curr_status, start |-> seg_start_dt,
                nemitted |-> Len(emitted), nrows |-> Len(rows),
                nui |-> Len(ui),
                fs |-> IF /\ Len(t.ui) > Len(ui)
                          /\ t.ui[Len(ui) + 1][1] \in {"saved", "error"}
                       THEN fs ELSE "none"]
    /\ periods' = IF Tracking(State) /\ (op \in SwitchOps \/ ~Tracking(t))
                  THEN Append(periods,
                              [names |-> active_names, from |-> cur.from,
                               to |-> clock, lo |-> cur.lo,
                               hi |-> Len(t.emitted)])
                  ELSE periods
    /\ cur' = IF op \in SwitchOps
              THEN [from |-> clock, lo |-> Len(t.emitted), doc |-> doc.id]
              ELSE cur
    /\ UNCHANGED clock

\* History record when no callback has run since the clock last moved.
NoCallback(op) ==
    [op |-> op, doc |-> NoDoc.id, idle |-> 0,
     key |-> None, names |-> <<"Unsaved", "Unknown">>,
     status |-> "active", start |-> None,
     nemitted |-> 0, nrows |-> 0, nui |-> 0, fs |-> "none"]

Init ==
    /\ clock = 0
    /\ handlers = FALSE
    /\ subscribed = FALSE
    /\ active_doc_key = None
    /\ active_names = <<"Unsaved", "Unknown">>
    /\ curr_status = "active"
    /\ seg_start_dt = None
    /\ rows = <<>>
    /\ ui = <<>>
    /\ emitted = <<>>
    /\ periods = <<>>
    /\ cur = [from |-> 0, lo |-> 0, doc |-> NoDoc.id]
    /\ last = NoCallback("init")

\* The wall clock moves forward between two callbacks.
Advance ==
    /\ \E t \in Times : t > clock /\ clock' = t
    /\ last' = NoCallback("advance")
    /\ UNCHANGED <<handlers, subscribed, active_doc_key, active_names,
                   curr_status, seg_start_dt, rows, ui, emitted, periods,
                   cur>>

\* run(context): adds the handlers to the host's events and to _handlers,
\* then _switch_to(app.activeDocument, "startup").  The host starts an
\* add-in that is not running.
RunOn(docs, fss, n) ==
    /\ Len(emitted) < n
    /\ ~handlers
    /\ handlers' = TRUE
    /\ subscribed' = TRUE
    /\ \E doc \in docs, fs \in fss :
          Commit(SwitchTo(State, doc, "startup", clock, fs), "run", doc, 0,
                 fs)

\* DocEventHandler("DocumentActivated").notify
DocumentActivatedOn(docs, fss, n) ==
    /\ Len(emitted) < n
    /\ subscribed
    /\ UNCHANGED <<handlers, subscribed>>
    /\ \E doc \in docs, fs \in fss :
          Commit(SwitchTo(State, doc, "activated", clock, fs), "activated",
                 doc, 0, fs)

\* DocEventHandler("DocumentClosed").notify
DocumentClosedOn(docs, fss, n) ==
    /\ Len(emitted) < n
    /\ subscribed
    /\ UNCHANGED <<handlers, subscribed>>
    /\ \E doc \in docs, fs \in fss :
          Commit(OnDocumentClosed(State, doc, clock, fs), "closed", doc, 0,
                 fs)

\* HtmlIncomingHandler.notify with action "tick"
TickOn(idles, fss, n) ==
    /\ Len(emitted) < n
    /\ subscribed
    /\ UNCHANGED <<handlers, subscribed>>
    /\ \E idle_sec \in idles, fs \in fss :
          Commit(OnTick(State, idle_sec, clock, fs), "tick", NoDoc, idle_sec,
                 fs)

\* stop(context): _stop_current("stop"), then _handlers.clear().  stop
\* removes no handler from the host's events, so callbacks may still be
\* delivered afterwards.
StopOn(fss, n) ==
    /\ Len(emitted) < n
    /\ handlers' = FALSE
    /\ UNCHANGED subscribed
    /\ \E fs \in fss :
          Commit(StopCurrent(State, "stop", clock, fs), "stop", NoDoc, 0,
                 fs)

Run == RunOn(ActivatedDocs, FsOutcomes, MaxSegs)
DocumentActivated == DocumentActivatedOn(ActivatedDocs, FsOutcomes, MaxSegs)
DocumentClosed == DocumentClosedOn(ClosedDocs, FsOutcomes, MaxSegs)
Tick == TickOn(IdleValues, FsOutcomes, MaxSegs)
Stop == StopOn(FsOutcomes, MaxSegs)

Next ==
    \/ Advance
    \/ Run
    \/ DocumentActivated
    \/ DocumentClosed
    \/ Tick
    \/ Stop

\* The same callbacks, delivered with missing and unreadable documents.
RunUnreadable == RunOn(UnreadableDocs, FsOk, MaxSegs)
DocumentActivatedUnreadable ==
    DocumentActivatedOn(UnreadableDocs, FsOk, MaxSegs)
DocumentClosedUnreadable ==
    DocumentClosedOn(UnreadableClosedDocs, FsOk, MaxSegs)
TickFew == TickOn(FewIdleValues, FsOk, MaxSegs)
StopOk == StopOn(FsOk, MaxSegs)

NextUnreadable ==
    \/ Advance
    \/ RunUnreadable
    \/ DocumentActivatedUnreadable
    \/ DocumentClosedUnreadable
    \/ TickFew
    \/ StopOk

SpecUnreadable == Init /\ [][NextUnreadable]_vars

\* The same callbacks on two documents, with successful writes, followed
\* for one segment more.
RunLong == RunOn(LongDocs, FsOk, MaxSegsLong)
DocumentActivatedLong == DocumentActivatedOn(LongDocs, FsOk, MaxSegsLong)
DocumentClosedLong == DocumentClosedOn(LongClosedDocs, FsOk, MaxSegsLong)
TickLong == TickOn(FewIdleValues, FsOk, MaxSegsLong)
StopLong == StopOn(FsOk, MaxSegsLong)

NextLong ==
    \/ Advance
    \/ RunLong
    \/ DocumentActivatedLong
    \/ DocumentClosedLong
    \/ TickLong
    \/ StopLong

SpecLong == Init /\ [][NextLong]_vars

Spec == Init /\ [][Next]_vars

\* ------------------------------------------------- vocabulary of the claims
\* The last callback found an open segment.
PreTracked == last.key # None /\ last.start # None

\* The last callback handed exactly one segment to _write_segment_row.
EmittedOne == Len(emitted) = last.nemitted + 1

\* The last callback handed no segment to _write_segment_row.
EmittedNone == Len(emitted) = last.nemitted

LastSeg == emitted[Len(emitted)]

\* Length of a segment in ticks, and the shortest length that is persisted.
SegTicks(seg) == seg.end - seg.start
MinTicks == MIN_SESSION_SECONDS * TicksPerSec

\* The segments lo+1..hi are all of one document and tile [from, to):
\* the first starts at from, each starts where the one before ends, the
\* last ends at to.  Without segments the interval is empty.
Tiles(names, from, to, lo, hi) ==
    IF lo = hi THEN from = to
    ELSE /\ emitted[lo + 1].start = from
         /\ emitted[hi].end = to
         /\ \A i \in (lo + 1)..hi :
               /\ emitted[i].names = names
               /\ emitted[i].start <= emitted[i].end
         /\ \A i \in (lo + 1)..(hi - 1) :
               emitted[i].end = emitted[i + 1].start

\* C1: the segments handed to _write_segment_row partition the timeline per
\* document: no two of them overlap, every closed tracking period of a
\* document is tiled without gap by consecutive segments of that document,
\* the open period is tiled up to the start of the open segment, and no
\* segment lies outside the periods.
C1_Partition ==
    /\ \A i, j \in 1..Len(emitted) :
          i < j => emitted[i].end <= emitted[j].start
    /\ \A k \in 1..Len(periods) :
          /\ periods[k].lo < periods[k].hi
          /\ Tiles(periods[k].names, periods[k].from, periods[k].to,
                   periods[k].lo, periods[k].hi)
          /\ periods[k].lo = IF k = 1 THEN 0 ELSE periods[k - 1].hi
    /\ LET done == IF periods = <<>> THEN 0
                   ELSE periods[Len(periods)].hi
       IN IF Tracking(State)
          THEN /\ cur.lo = done
               /\ Tiles(active_names, cur.from, Val(seg_start_dt),
                        cur.lo, Len(emitted))
          ELSE Len(emitted) = done

\* A tracking period of positive length made of two segments: an active
\* one closed by an idle heartbeat and the idle one that follows it.
C1_Witness ==
    /\ Len(emitted) = 2
    /\ \/ /\ Len(periods) = 1
          /\ periods[1].lo = 0 /\ periods[1].hi = 2
       \/ /\ Tracking(State)
          /\ periods = <<>>
    /\ emitted[1].status = "active" /\ emitted[2].status = "idle"
    /\ SegTicks(emitted[1]) > 0 /\ SegTicks(emitted[2]) > 0

\* C2: every row of the log has a duration of at least MIN_SESSION_SECONDS,
\* and a callback that closes a segment shorter than MIN_SESSION_SECONDS
\* whole seconds appends no row.
C2_NoShortRow ==
    /\ \A i \in 1..Len(rows) :
          rows[i].duration_seconds >= MIN_SESSION_SECONDS
    /\ (last.op \in {"run", "activated", "closed", "tick", "stop"}
          /\ EmittedOne /\ SegTicks(LastSeg) < MinTicks)
       => Len(rows) = last.nrows
    /\ Len(rows) <= Cardinality({i \in 1..Len(emitted) :
                                    SegTicks(emitted[i]) >= MinTicks})

\* A heartbeat closed an idle segment of half a second: nothing was written.
C2_Witness ==
    /\ last.op = "tick"
    /\ last.status = "idle"
    /\ EmittedOne
    /\ SegTicks(LastSeg) > 0
    /\ SegTicks(LastSeg) < MinTicks
    /\ Len(rows) = last.nrows
    /\ ui[Len(ui) - 1] = <<"dropped", "idle">>

\* C3: when a heartbeat moves the tracker from active to idle, the idle
\* start (end of the closed active segment, start of the open idle segment)
\* is not earlier than the start of the active segment it closes.
C3_Clamp ==
    (last.op = "tick" /\ PreTracked /\ last.status = "active"
       /\ curr_status = "idle")
    => /\ EmittedOne
       /\ LastSeg.status = "active"
       /\ LastSeg.start = Val(last.start)
       /\ LastSeg.end = Val(seg_start_dt)
       /\ Val(seg_start_dt) >= Val(last.start)

\* The reported idle time reaches back before the start of the segment.
C3_Witness ==
    /\ last.op = "tick" /\ PreTracked /\ last.status = "active"
    /\ curr_status = "idle"
    /\ clock - last.idle * TicksPerSec < Val(last.start)
    /\ Val(last.start) > 0
    /\ Val(seg_start_dt) = Val(last.start)

\* switch(docA) at t=0, then heartbeat(idle=130) at t=150 s.
C4_Scenario ==
    /\ last.op = "tick"
    /\ last.idle = 130
    /\ clock = 150 * TicksPerSec
    /\ last.key = Some(DocKeyAndNames(DocA)[1])
    /\ last.names = <<"P", "a">>
    /\ last.status = "active"
    /\ last.start = Some(0)
    /\ last.nemitted = 0

\* In the scenario, the heartbeat closed the active segment [0, t) of docA
\* and opened an idle segment of docA at t (t in seconds).
C4_Outcome(t) ==
    /\ emitted = <<[names |-> <<"P", "a">>, status |-> "active",
                    start |-> 0, end |-> t * TicksPerSec]>>
    /\ curr_status = "idle"
    /\ seg_start_dt = Some(t * TicksPerSec)
    /\ active_names = <<"P", "a">>

\* C4 as stated: switch(docA) at t=0 and heartbeat(idle=130) at t=150 emit
\* the active segment [0,30) and open the idle segment at t=30.
C4_Original == C4_Scenario => C4_Outcome(30)

\* C4 amended: switch(docA) at t=0 and heartbeat(idle=130) at t=150 emit the
\* active segment [0,20) and open the idle segment at t=20 (150 - 130).
C4_Amended == C4_Scenario => C4_Outcome(20)

C4_Witness == C4_Scenario /\ C4_Outcome(20)

\* The tracker and its outputs are as the last callback found them.
Untouched ==
    /\ EmittedNone
    /\ Len(rows) = last.nrows
    /\ Len(ui) = last.nui
    /\ active_doc_key = last.key
    /\ active_names = last.names
    /\ curr_status = last.status
    /\ seg_start_dt = last.start

\* C5: stop() that finds no open segment (no current document or no segment
\* start) emits nothing, writes nothing and changes no tracker variable.
C5_StopNoop ==
    (last.op = "stop" /\ ~PreTracked) => Untouched

\* stop() directly after a stop that closed a segment.
C5_Witness ==
    /\ last.op = "stop"
    /\ ~PreTracked
    /\ Len(ui) > 0 /\ ui[Len(ui)] = <<"stop">>
    /\ Len(emitted) > 0

\* The document handed to the last DocumentActivated or run callback.
DocOf(id) == CHOOSE d \in Docs : d.id = id

\* C6: a switch closes the open segment, if any, for the previous document
\* with the previous status, its recorded start and the current time as end,
\* and then tracks the new document, active, from that same time.
C6_Switch ==
    last.op \in SwitchOps =>
       /\ IF PreTracked
          THEN /\ EmittedOne
               /\ LastSeg = [names |-> last.names, status |-> last.status,
                             start |-> Val(last.start), end |-> clock]
          ELSE EmittedNone
       /\ active_doc_key = Some(DocKeyAndNames(DocOf(last.doc))[1])
       /\ active_names = DocKeyAndNames(DocOf(last.doc))[2]
       /\ curr_status = "active"
       /\ seg_start_dt = Some(clock)

\* A switch to the document already tracked, found idle, later than the
\* start of its open segment.
C6_Witness ==
    /\ last.op = "activated"
    /\ PreTracked
    /\ last.status = "idle"
    /\ last.doc = DocA.id
    /\ last.key = Some("urn:a")
    /\ clock > Val(last.start)
    /\ LastSeg.status = "idle"
    /\ curr_status = "active"

\* C7: after a heartbeat that finds a tracked document the status is idle
\* exactly if the reported idle time is at least IDLE_THRESHOLD_SEC; a
\* heartbeat below the threshold that finds the status idle closes the idle
\* segment at the heartbeat time and opens an active segment at that time.
C7_StatusFollowsIdle ==
    (last.op = "tick" /\ PreTracked) =>
       /\ curr_status = "idle" <=> last.idle >= IDLE_THRESHOLD_SEC
       /\ curr_status = "active" <=> last.idle < IDLE_THRESHOLD_SEC
       /\ (last.idle < IDLE_THRESHOLD_SEC /\ last.status = "idle") =>
             /\ EmittedOne
             /\ LastSeg = [names |-> last.names, status |-> "idle",
                           start |-> Val(last.start), end |-> clock]
             /\ seg_start_dt = Some(clock)

\* A heartbeat at exactly the threshold made the tracker idle, or one just
\* below it made an idle tracker active again.
C7_Witness ==
    /\ last.op = "tick" /\ PreTracked
    /\ last.idle = IDLE_THRESHOLD_SEC
    /\ last.status = "active"
    /\ curr_status = "idle"

\* C8: a heartbeat that finds the status already matching the reported idle
\* time emits nothing and changes neither the status nor the start of the
\* open segment.
C8_HeartbeatNoop ==
    (/\ last.op = "tick" /\ PreTracked
     /\ \/ last.status = "idle" /\ last.idle >= IDLE_THRESHOLD_SEC
        \/ last.status = "active" /\ last.idle < IDLE_THRESHOLD_SEC)
    => Untouched

\* A repeated idle heartbeat whose idle start (now - idle) is later than the
\* start of the open idle segment.
C8_Witness ==
    /\ last.op = "tick" /\ PreTracked
    /\ last.status = "idle"
    /\ last.idle >= IDLE_THRESHOLD_SEC
    /\ clock - last.idle * TicksPerSec > Val(last.start)
    /\ seg_start_dt = last.start

\* C9: stop() that finds an open segment closes it at the current time with
\* the current status and leaves no current document and no open segment;
\* as long as there is no current document (until the next switch) every
\* heartbeat and every stop emits nothing and changes nothing, and no
\* callback other than a switch sets the current document.
C9_StopClears ==
    /\ (last.op = "stop" /\ PreTracked) =>
          /\ EmittedOne
          /\ LastSeg = [names |-> last.names, status |-> last.status,
                        start |-> Val(last.start), end |-> clock]
          /\ active_doc_key = None
          /\ seg_start_dt = None
    /\ (last.op \in {"tick", "stop"} /\ last.key = None) =>
          /\ last.start = None
          /\ Untouched
    /\ (last.op \notin SwitchOps /\ last.op \notin {"init", "advance"}
          /\ last.key = None) => active_doc_key = None

\* stop() closed an idle segment of positive length.
C9_Witness ==
    /\ last.op = "stop" /\ PreTracked
    /\ last.status = "idle"
    /\ EmittedOne
    /\ SegTicks(LastSeg) > 0
    /\ active_doc_key = None

\* C10: every segment handed to _write_segment_row has end >= start.
C10_EndNotBeforeStart ==
    \A i \in 1..Len(emitted) : emitted[i].end >= emitted[i].start

\* A clamped segment (end = start although now - idle lies before start)
\* next to a segment of positive length.
C10_Witness ==
    /\ Len(emitted) = 2
    /\ SegTicks(emitted[1]) > 0
    /\ SegTicks(emitted[2]) = 0
    /\ last.op = "tick"
    /\ curr_status = "idle"
    /\ clock - last.idle * TicksPerSec < emitted[2].start

\* The tracker and its outputs as the last callback found them.
PreState ==
    [key |-> last.key, names |-> last.names, status |-> last.status,
     start |-> last.start, rows |-> SubSeq(rows, 1, last.nrows),
     ui |-> SubSeq(ui, 1, last.nui),
     emitted |-> SubSeq(emitted, 1, last.nemitted)]

\* What the last callback computes from PreState under file outcome fs.
Outcome(fs) ==
    CASE last.op = "run" ->
            SwitchTo(PreState, DocOf(last.doc), "startup", clock, fs)
      [] last.op = "activated" ->
            SwitchTo(PreState, DocOf(last.doc), "activated", clock, fs)
      [] last.op = "closed" ->
            OnDocumentClosed(PreState, DocOf(last.doc), clock, fs)
      [] last.op = "tick" -> OnTick(PreState, last.idle, clock, fs)
      [] last.op = "stop" -> StopCurrent(PreState, "stop", clock, fs)
      [] OTHER -> PreState

\* The write attempted by the last callback failed.
WriteFailed == last.fs \in {"fail", "failalt"}

\* C11: a failed write is reported to the diagnostic stream and goes no
\* further: no row is appended, the callback runs to its end, and the
\* tracker (key, names, status, segment start) is exactly as it would be
\* had the write succeeded.
C11_WriteFailureContained ==
    WriteFailed =>
       /\ EmittedOne
       /\ Len(rows) = last.nrows
       /\ ui[last.nui + 1] = <<"error", LastSeg.status>>
       /\ LET t == Outcome("ok")
          IN /\ active_doc_key = t.key
             /\ active_names = t.names
             /\ curr_status = t.status
             /\ seg_start_dt = t.start
             /\ emitted = t.emitted
             /\ Len(ui) = Len(t.ui)
             /\ Len(t.rows) = last.nrows + 1

\* A switch to another document whose write of the closed segment failed.
C11_Witness ==
    /\ WriteFailed
    /\ last.op = "activated"
    /\ active_doc_key # last.key
    /\ seg_start_dt = Some(clock)
    /\ SegTicks(LastSeg) >= MinTicks
    /\ ui[Len(ui)][1] = "start"

\* The row _write_segment_row appends for a segment.
RowOf(seg) ==
    [project_name |-> seg.names[1], document_name |-> seg.names[2],
     status |-> seg.status,
     start_time |-> seg.start \div (60 * TicksPerSec),
     end_time |-> seg.end \div (60 * TicksPerSec),
     duration_seconds |-> SegTicks(seg) \div TicksPerSec,
     duration_hms |-> <<(SegTicks(seg) \div TicksPerSec) \div 3600,
                        ((SegTicks(seg) \div TicksPerSec) % 3600) \div 60,
                        (SegTicks(seg) \div TicksPerSec) % 60>>]

\* C12: when the write to the log location fails it is retried at an
\* alternate location, so a segment of sufficient duration is persisted
\* whenever at least one location is writable (the add-in folder, or
\* another folder when the add-in folder is not).
C12_PersistedIfAnyWritable ==
    (/\ last.fs \in {"ok", "failalt"}
     /\ EmittedOne
     /\ SegTicks(LastSeg) >= MinTicks)
    => /\ Len(rows) = last.nrows + 1
       /\ rows[Len(rows)] = RowOf(LastSeg)

\* The key the add-in derives for each document object of Docs: the cloud
\* id of a saved document, "project|name" of an unsaved one, "None" when
\* there is no document or its data file cannot be read.
KeyOfDoc(id) ==
    CASE id = DocA.id -> "urn:a"
      [] id = DocU1.id -> "Unsaved|Untitled"
      [] id = DocU2.id -> "Unsaved|Untitled"
      [] id = NoDoc.id -> "None"
      [] id = BadDoc.id -> "None"
      [] id = NoName.id -> "None"
      [] id = BadUrn.id -> "None"

\* C13: a document-closed event ends tracking exactly if the key of the
\* closed document equals the key of the current document: with equal keys
\* the open segment is closed at the current time and the state cleared,
\* otherwise nothing is emitted and the tracker is unchanged.
C13_CloseIffSameKey ==
    last.op = "closed" =>
       IF last.key # None /\ Val(last.key) = KeyOfDoc(last.doc)
       THEN /\ EmittedOne
            /\ LastSeg = [names |-> last.names, status |-> last.status,
                          start |-> Val(last.start), end |-> clock]
            /\ active_doc_key = None
            /\ seg_start_dt = None
       ELSE Untouched

\* The unsaved document DocU1 is tracked and another unsaved document of
\* the same name, DocU2, is closed: tracking of DocU1 ends.
C13_Witness ==
    /\ last.op = "closed"
    /\ last.doc = DocU2.id
    /\ cur.doc = DocU1.id
    /\ last.key = Some("Unsaved|Untitled")
    /\ EmittedOne
    /\ LastSeg.names = <<"Unsaved", "Untitled">>
    /\ active_doc_key = None

\* Document objects that are missing or whose attribute reads raise.
Malformed(id) == id \in {NoDoc.id, NoName.id, BadDoc.id, BadUrn.id}

\* A switch closed the open segment, if any, and opened an active segment
\* at the current time under key "None" and the names given.
SwitchedToPlaceholder(proj, name) ==
    /\ IF PreTracked
       THEN /\ EmittedOne
            /\ LastSeg = [names |-> last.names, status |-> last.status,
                          start |-> Val(last.start), end |-> clock]
       ELSE EmittedNone
    /\ active_doc_key = Some("None")
    /\ active_names = <<proj, name>>
    /\ curr_status = "active"
    /\ seg_start_dt = Some(clock)

\* After every switch there is a current document and an open segment.
SwitchLeavesTracking ==
    last.op \in SwitchOps =>
       /\ active_doc_key # None /\ Val(active_doc_key) # ""
       /\ seg_start_dt # None

\* C14 as stated: a switch to a missing or malformed document tracks the
\* placeholder identity (key "None", project "Unsaved", name "Unknown").
C14_Original ==
    /\ (last.op \in SwitchOps /\ Malformed(last.doc))
          => SwitchedToPlaceholder("Unsaved", "Unknown")
    /\ SwitchLeavesTracking

\* C14 amended: a switch to a missing or malformed document tracks key
\* "None"; project and name are the values read before the failing read
\* (the name when the data file cannot be read, name and project when the
\* id cannot be read) and "Unsaved" and "Unknown" for what was not read.
C14_Amended ==
    /\ (last.op \in SwitchOps /\ Malformed(last.doc)) =>
          CASE last.doc = BadDoc.id -> SwitchedToPlaceholder("Unsaved", "b")
            [] last.doc = BadUrn.id -> SwitchedToPlaceholder("Q", "c")
            [] OTHER -> SwitchedToPlaceholder("Unsaved", "Unknown")
    /\ SwitchLeavesTracking

\* A switch from a tracked document to the one whose data file cannot be
\* read.
C14_Witness ==
    /\ last.op = "activated"
    /\ last.doc = BadDoc.id
    /\ PreTracked
    /\ last.key = Some("urn:a")
    /\ EmittedOne
    /\ active_names = <<"Unsaved", "b">>
    /\ active_doc_key = Some("None")

\* Both slots of the tracker are empty / both are filled.
BothUnset == active_doc_key = None /\ seg_start_dt = None
BothSet == active_doc_key # None /\ seg_start_dt # None

\* C15: the tracker is a single slot whose two parts agree: the current
\* document key is set exactly if the start of the current segment is set;
\* both are unset initially, after stop and after a close of the current
\* document, and both are set after a switch and after a heartbeat that
\* changed the status.
C15_SlotsAgree ==
    /\ BothUnset \/ BothSet
    /\ last.op \in {"init", "stop"} => BothUnset
    /\ (last.op = "closed" /\ last.key # None
          /\ KeyOfDoc(last.doc) = Val(last.key)) => BothUnset
    /\ last.op \in SwitchOps => BothSet
    /\ (last.op = "tick" /\ curr_status # last.status) => BothSet

\* The close of the current document, found idle, emptied both slots.
C15_Witness ==
    /\ last.op = "closed" /\ PreTracked
    /\ last.status = "idle"
    /\ KeyOfDoc(last.doc) = Val(last.key)
    /\ BothUnset

\* C16: a heartbeat leaves the current document key and its display names
\* as it found them, for every reported idle time and every state, and a
\* segment it emits carries the names of the current document.
C16_HeartbeatKeepsDocument ==
    last.op = "tick" =>
       /\ active_doc_key = last.key
       /\ active_names = last.names
       /\ \A i \in (last.nemitted + 1)..Len(emitted) :
             emitted[i].names = active_names

\* A heartbeat closed the active segment of a saved document under that
\* document's names.
C16_Witness ==
    /\ last.op = "tick" /\ PreTracked
    /\ last.status = "active"
    /\ EmittedOne
    /\ LastSeg.names = <<DocA.proj, DocA.name>>
    /\ active_names = <<DocA.proj, DocA.name>>
    /\ active_doc_key = Some(KeyOfDoc(DocA.id))

\* The segments emitted after the first lo, up to the hi-th, are labelled
\* active, idle, active, ... in this order.
Alternates(lo, hi) ==
    \A i \in (lo + 1)..hi :
       emitted[i].status = IF (i - lo) % 2 = 1 THEN "active" ELSE "idle"

\* The i-th message of the log reports a segment handed to
\* _write_segment_row with the label idle.
IdleSegmentMessage(i) ==
    /\ ui[i][1] \in {"saved", "dropped", "error"}
    /\ ui[i][2] = "idle"

\* C17: the segments emitted (before the minimum-duration filter) between
\* a switch and the next switch, stop or close of the current document are
\* labelled active, idle, active, ... starting with active; a segment
\* labelled idle is emitted only for a stretch opened by the heartbeat
\* transition from active to idle: the segment emitted before it is the
\* active segment of the same document that this transition closed at the
\* start of the idle stretch, and the message before it in the log is the
\* one _to_idle writes.
C17_Alternation ==
    /\ \A k \in 1..Len(periods) : Alternates(periods[k].lo, periods[k].hi)
    /\ Alternates(cur.lo, Len(emitted))
    /\ \A i \in 1..Len(emitted) :
          emitted[i].status = "idle" =>
             /\ i > 1
             /\ emitted[i - 1].status = "active"
             /\ emitted[i - 1].names = emitted[i].names
             /\ emitted[i - 1].end = emitted[i].start
    /\ \A i \in 1..Len(ui) :
          IdleSegmentMessage(i) =>
             /\ i > 1
             /\ Len(ui[i - 1]) = 1
             /\ ui[i - 1][1] = "idle"

\* Three heartbeat transitions in one tracking period emitted an active,
\* an idle and again an active segment.
C17_Witness ==
    /\ Len(emitted) = cur.lo + 3
    /\ emitted[cur.lo + 1].status = "active"
    /\ emitted[cur.lo + 2].status = "idle"
    /\ emitted[cur.lo + 3].status = "active"
    /\ SegTicks(emitted[cur.lo + 2]) > 0
    /\ last.op = "tick"
    /\ curr_status = "idle"

\* C18: rows are appended in time order: the start time of each row is not
\* before the end time of the row appended before it, whatever documents,
\* switches and stops lie between them; the same holds of the exact times
\* of the segments handed to _write_segment_row.
C18_RowsInTimeOrder ==
    /\ \A i \in 1..(Len(rows) - 1) :
          rows[i + 1].start_time >= rows[i].end_time
    /\ \A i \in 1..(Len(emitted) - 1) :
          emitted[i + 1].start >= emitted[i].end

\* Two rows of different documents, the second ending in a later minute
\* than the first.
C18_Witness ==
    /\ Len(rows) = 2
    /\ rows[1].document_name # rows[2].document_name
    /\ rows[2].end_time > rows[1].end_time
    /\ rows[2].start_time = rows[1].end_time
    /\ emitted[1].end > 0

====
